---- MODULE Spec2Model ----
(***************************************************************************)
(* Model of the stackrankdice rules engine: the turn/combat state machine  *)
(* of src/src/events.rs over the Board/GameState of src/src/game.rs, run   *)
(* by the frame loop that src/src/app.rs registers.                        *)
(*                                                                         *)
(* One frame runs the systems in the order app.rs registers them:          *)
(*   Update:     event_region_clash, event_dice_roll_result,               *)
(*               event_dice_rolls_complete, event_region_clash_end,        *)
(*               event_game_over, then the stage's command buffers         *)
(*   PostUpdate: event_region_selected                                     *)
(* Every system runs once per frame.  A system that would find nothing to  *)
(* read (no event in its reader, no timer, no queued command) changes      *)
(* nothing, so the frame steps over it: pc goes to the next system in the  *)
(* order that has something to read.  event_region_clash_end and           *)
(* event_region_selected are never stepped over: the first evaluates the   *)
(* turn and the win on every frame, the second may receive a pick.         *)
(***************************************************************************)
EXTENDS Integers, Sequences, FiniteSets, TLC

\* ---------------------------------------------------------------- bounds
\* The longest game log explored (clash-starts accepted per run).
MaxLog == 2
\* The largest turn_counter explored.
MaxTurn == 3

\* ------------------------------------------------------ program constants
\* game.rs:239  usize::min(4, budget): exclusive upper bound of a dice count
DICE_RANGE_END == 4
\* The games explored.  players: number_of_players.  dice: the dice counts
\* generate_board gave the regions, in creation order (each count is in
\* 1 .. DICE_RANGE_END - 1).  place: where each region lies on a line of
\* two-hex patches, in creation order; every patch after the first touches
\* an earlier one.  Regions are created slot by slot, one per player, so
\* region i belongs to player i mod players.
\*   duel:  R0 R1            (players 0 1)
\*   trio:  R2 R0 R1 R3      (players 2 0 1 0)
InitialGames ==
    { [players |-> 2, dice |-> <<2, 1>>, place |-> <<0, 1>>],
      [players |-> 3, dice |-> <<2, 1, 1, 1>>, place |-> <<1, 2, 0, 3>>] }

\* The face values the dice collaborator returns in the games explored.
Faces == {1, 2}

None == [none |-> TRUE]

VARIABLES
    board,              \* GameState.board: [hexes, regions]
    turn_of_player,     \* GameState.turn_of_player
    turn_counter,       \* GameState.turn_counter
    number_of_players,  \* GameState.number_of_players
    game_log,           \* GameState.game_log
    selected_region,    \* SelectedRegion.region (None or a Region snapshot)
    entities,           \* the (Entity, &Region) query: Region components + pickability
    clash_start_events, \* Events<EventRegionClashStart>
    dice_roll_started,  \* Events<DiceRollStartEvent>: requests the collaborator has not answered
    timers,             \* number of live DiceRollTimer entities
    clash_end_events,   \* Events<EventRegionClashEnd>
    game_over_events,   \* Events<EventGameOver>
    spawn_timers,       \* Commands: DiceRollTimer spawns not yet applied
    respawn,            \* Commands: <<>> or <<new board entities>> not yet applied
    pc,                 \* the system the frame runs next
    game_over_sent,     \* history: number of EventGameOver sent so far
    processed,          \* history: <<attacker id, defender id>> of every clash-end processed
    gen,                \* generate_board's locals while it runs; None once the game is built
    apps                \* the seeds and random streams of the startups compared; <<>> otherwise

vars == <<board, turn_of_player, turn_counter, number_of_players, game_log,
          selected_region, entities, clash_start_events, dice_roll_started,
          timers, clash_end_events, game_over_events, spawn_timers, respawn,
          pc, game_over_sent, processed, gen, apps>>

\* ------------------------------------------------------------- hex grid
\* six distinct hexes around c, one of them a step off the axial directions
neighbors_Skewed(c) ==
    { <<c[1] + 1, c[2]>>, <<c[1] + 1, c[2] - 1>>, <<c[1], c[2] - 1>>,
      <<c[1] - 1, c[2]>>, <<c[1] + 1, c[2] + 1>>, <<c[1], c[2] + 1>> }

\* HexCoord::neighbors(): the six axial directions.
neighbors(c) ==
    { <<c[1] + 1, c[2]>>, <<c[1] + 1, c[2] - 1>>, <<c[1], c[2] - 1>>,
      <<c[1] - 1, c[2]>>, <<c[1] - 1, c[2] + 1>>, <<c[1], c[2] + 1>> }

\* Vec::contains
Contains(v, x) == \E i \in DOMAIN v : v[i] = x

\* only the first hex of self is looked at
is_opponent_FirstHexOnly(self, other) ==
    IF self.owner = other.owner
    THEN FALSE
    ELSE \E n \in neighbors(self.hexes[1]) : Contains(other.hexes, n)

\* Region::is_opponent
is_opponent(self, other) ==
    IF self.owner = other.owner
    THEN FALSE
    ELSE \E i \in DOMAIN self.hexes :
            \E n \in neighbors(self.hexes[i]) : Contains(other.hexes, n)

\* Vec<Region> is modelled as a function over 0..len-1, so that a region's
\* id is its index as in the source.
VecLen(v) == Cardinality(DOMAIN v)

RECURSIVE SumSeq(_)
\* Iterator::sum over a list of face values
SumSeq(s) == IF s = <<>> THEN 0 ELSE Head(s) + SumSeq(Tail(s))

\* ------------------------------------------------------------ the board
\* A board generate_board can return: the accepted patches in creation
\* order (owner = player of the slot, id = index), each patch two adjacent
\* hexes.
LineRegion(i, owner, d, at) ==
    [hexes |-> << <<2 * at, 0>>, <<2 * at + 1, 0>> >>, owner |-> owner, num_dice |-> d, id |-> i]

HexOwner(regions, h) ==
    (CHOOSE i \in DOMAIN regions : Contains(regions[i].hexes, h))

LineBoard(g) ==
    LET regions == [i \in 0 .. Len(g.dice) - 1 |->
                      LineRegion(i, i % g.players, g.dice[i + 1], g.place[i + 1])]
        keys == UNION { {regions[i].hexes[j] : j \in DOMAIN regions[i].hexes} : i \in DOMAIN regions }
    IN [hexes |-> [h \in keys |-> regions[HexOwner(regions, h)].owner], regions |-> regions]

\* board.rs draw_board: a region is spawned pickable unless it is the current
\* player's and already attacked on this turn_counter.
is_region_playable(region, log, tc, top) ==
    ~ \E i \in DOMAIN log :
        /\ log[i].turn_counter = tc
        /\ log[i].region_1.id = region.id
        /\ region.owner = top

draw_board(regions, log, tc, top) ==
    [i \in DOMAIN regions |->
        [region |-> regions[i], pickable |-> is_region_playable(regions[i], log, tc, top)]]

\* The state build_app constructs around a generated board: turn 0 of
\* player 0, an empty log, the board drawn once by the startup system.
GameInit(games) ==
    /\ \E g \in games :
          /\ \A i \in DOMAIN g.dice : g.dice[i] \in 1 .. DICE_RANGE_END - 1
          /\ number_of_players = g.players
          /\ board = LineBoard(g)
    /\ turn_of_player = 0
    /\ turn_counter = 0
    /\ game_log = <<>>
    /\ selected_region = None
    /\ entities = draw_board(board.regions, <<>>, 0, 0)
    /\ clash_start_events = <<>>
    /\ dice_roll_started = <<>>
    /\ timers = 0
    /\ clash_end_events = <<>>
    /\ game_over_events = <<>>
    /\ spawn_timers = 0
    /\ respawn = <<>>
    /\ pc = "event_region_clash"
    /\ game_over_sent = 0
    /\ processed = <<>>
    /\ gen = None
    /\ apps = <<>>

Init == GameInit(InitialGames)

\* Games whose regions start with the largest dice count, one patch round
\* each (no slot dropped), explored for the dice arithmetic of a capture.
\*   pair:  R0 R1            (players 0 1)
\*   line:  R1 R0 R2         (players 1 0 2)
DiceGames ==
    { [players |-> 2, dice |-> <<3, 3>>, place |-> <<0, 1>>],
      [players |-> 3, dice |-> <<3, 1, 1>>, place |-> <<1, 0, 2>>] }

DiceInit == GameInit(DiceGames)

\* ------------------------------------------------------- generate_board
\* generate_board is explored on a scaled-down world.  MaxPatches stands for
\* NUMBER_OF_PATCHES (16 in the source), SeedCoords for the seed range
\* -HALF_BOARD_SIZE .. HALF_BOARD_SIZE - 1, and each game's `area` for
\* BOARD_SIZE * BOARD_SIZE (400 in the source).  The random draws explored
\* are those that keep the patches inside Land, the seed window's centre hex
\* and its six neighbours; a game marked `wide` is also followed out of
\* Land where no draw that ends the slot stays inside.
MaxPatches == 1

SeedCoords == -1 .. 0

Land == { <<-1, 0>> } \cup neighbors(<<-1, 0>>)

\* The rejected attempts of a run that are counted; further ones change
\* nothing, the count included.
MaxRetries == 1

\* NUMBER_OF_PATCHES * number_of_players * 2
NUMBER_OF_PATCHES_TIMES(players) == MaxPatches * players * 2

GenGames ==
    { [players |-> 2, area |-> 4, wide |-> TRUE],
      [players |-> 3, area |-> 6, wide |-> TRUE],
      [players |-> 1, area |-> 4, wide |-> TRUE],
      [players |-> 2, area |-> 8, wide |-> TRUE],
      [players |-> 2, area |-> 20, wide |-> FALSE],
      [players |-> 0, area |-> 4, wide |-> TRUE] }

\* a division that yields 0 instead of failing on a zero divisor
patch_size_Saturating(area, players) ==
    IF NUMBER_OF_PATCHES_TIMES(players) = 0 THEN [panic |-> FALSE, value |-> 0]
    ELSE [panic |-> FALSE, value |-> area \div NUMBER_OF_PATCHES_TIMES(players)]

\* (BOARD_SIZE * BOARD_SIZE) / (NUMBER_OF_PATCHES * number_of_players * 2):
\* an integer division, which panics on a zero divisor.
patch_size(area, players) ==
    IF NUMBER_OF_PATCHES_TIMES(players) = 0 THEN [panic |-> TRUE, value |-> 0]
    ELSE [panic |-> FALSE, value |-> area \div NUMBER_OF_PATCHES_TIMES(players)]

\* The iteration orders a HashMap may have in a run (Rust leaves the order
\* unspecified; it differs from run to run).
HashOrders == {0, 1}

\* HexCoord::neighbors() as the list the loops walk through.
NeighborSeq(c) ==
    << <<c[1] + 1, c[2]>>, <<c[1] + 1, c[2] - 1>>, <<c[1], c[2] - 1>>,
       <<c[1] - 1, c[2]>>, <<c[1] - 1, c[2] + 1>>, <<c[1], c[2] + 1>> >>

\* Board::default()
EmptyBoard == [hexes |-> <<>>, regions |-> <<>>]

\* hexes.get(&h).is_none()
IsFree(hexes, h) == h \notin DOMAIN hexes

\* every sampled seed is taken, assigned or not
is_starting_point_valid_Always(hexes, seed) == TRUE

\* board.hexes.get(&initial_coord).is_none()
is_starting_point_valid(hexes, seed) == IsFree(hexes, seed)

\* HashMap::insert
Insert(hexes, h, v) ==
    CHOOSE out \in { [x \in (DOMAIN old) \cup {k} |-> IF x = k THEN v ELSE old[x]] :
                        old \in {hexes}, k \in {h} } : TRUE

\* Vec::push on the region list
Push(regions, r) ==
    [i \in 0 .. VecLen(regions) |-> IF i = VecLen(regions) THEN r ELSE regions[i]]

\* The patch hexes that have a free neighbour, in patch order: the random
\* order of choose_multiple decides which of them is found first.
Bordering(patch, snap) ==
    SelectSeq(patch, LAMBDA h : \E n \in neighbors(h) : IsFree(snap, n))

\* the free hexes around the eastern neighbour of h instead of around h
Candidates_Leaping(h, snap, hash) ==
    SelectSeq(NeighborSeq(NeighborSeq(h)[1]), LAMBDA n : IsFree(snap, n))

\* the free neighbours in the order a HashMap iteration would give them
Candidates_MapOrder(h, snap, hash) ==
    LET cs == SelectSeq(NeighborSeq(h), LAMBDA n : IsFree(snap, n))
    IN  IF hash = 0 THEN cs ELSE [i \in 1 .. Len(cs) |-> cs[Len(cs) + 1 - i]]

\* candidates: the free neighbours of the bordering hex, in neighbors()
\* order.  hex_snapshot is only probed by key: its iteration order (hash)
\* is not consulted.
Candidates(h, snap, hash) ==
    SelectSeq(NeighborSeq(h), LAMBDA n : IsFree(snap, n))

\* One pass of `for _ in 0..patch_size`: draw d.m picks the bordering hex,
\* draw d.c picks the candidate that joins the patch.
GrowStep(st, owner, d, hash) ==
    CHOOSE out \in
        { [patch |-> Append(st.patch, cs[(d.c % Len(cs)) + 1]),
           snap |-> Insert(st.snap, cs[(d.c % Len(cs)) + 1], owner)] :
            cs \in { Candidates(b[(d.m % Len(b)) + 1], st.snap, hash) :
                        b \in { Bordering(st.patch, st.snap) } } } : TRUE

RECURSIVE Grow(_, _, _, _)
\* The growth loop under the draws ds; it breaks when no patch hex has a
\* free neighbour.
Grow(st, owner, ds, hash) ==
    IF ds = <<>> \/ Bordering(st.patch, st.snap) = <<>> THEN st
    ELSE CHOOSE out \in { Grow(nx, owner, rest, hash) :
                              nx \in { GrowStep(st, owner, Head(ds), hash) },
                              rest \in { Tail(ds) } } : TRUE

RECURSIVE GrowDraws(_, _, _, _)
\* The draws explored for a growth loop of `steps` passes: every bordering
\* hex with every candidate of it that lies in Land.  With `wide`, a patch
\* that can only grow out of Land takes its first bordering hex and the
\* first candidate.
GrowDraws(st, owner, steps, wide) ==
    IF steps = 0 \/ Bordering(st.patch, st.snap) = <<>> THEN { <<>> }
    ELSE LET b == Bordering(st.patch, st.snap)
             inside == { d \in [m : 0 .. Len(b) - 1, c : 0 .. 5] :
                            LET cs == Candidates(b[d.m + 1], st.snap, 0)
                            IN  d.c < Len(cs) /\ cs[d.c + 1] \in Land }
             ok == IF inside = {} /\ wide THEN { [m |-> 0, c |-> 0] } ELSE inside
         IN  UNION { UNION { { <<d>> \o rest : rest \in GrowDraws(nx, owner, steps - 1, wide) } :
                             nx \in { GrowStep(st, owner, d, 0) } } :
                     d \in ok }

\* no gate: every grown patch is accepted
has_neighbours_Always(patch, hexes) == TRUE

\* a gate no patch passes
has_neighbours_Never(patch, hexes) == FALSE

\* has_neighbours: some neighbour of a patch hex is already on the board
has_neighbours(patch, hexes) ==
    \E i \in DOMAIN patch : \E n \in neighbors(patch[i]) : ~ IsFree(hexes, n)

\* a rejected attempt whose working snapshot is written back to the board
RejectedAttempt_KeepingSnapshot(b, snap) == [placed |-> "retry", board |-> [b EXCEPT !.hexes = snap]]

\* `continue` on an occupied seed, or the end of the loop body with
\* has_neighbours false: hex_snapshot and patch_hexes go out of scope,
\* board.hexes and board.regions have not been written.
RejectedAttempt(b, snap) == [placed |-> "retry", board |-> b]

\* The body of the slot loop for (patch, player) under the draws d:
\* "retry" (occupied seed, or a patch that touches nothing: draw again),
\* "dropped" (the patch stayed at its seed: the slot ends without a region),
\* "accepted" (the patch becomes a region).
generate_patch(b, patch, player, d, hash) ==
    LET seed == <<d.q, d.r>>
        Body(grown) ==
            IF ~ is_starting_point_valid(b.hexes, seed) THEN RejectedAttempt(b, grown.snap)
            ELSE IF Len(grown.patch) = 1 THEN [placed |-> "dropped", board |-> b]
            ELSE IF has_neighbours(grown.patch, b.hexes) \/ (player = 0 /\ patch = 0)
            THEN [placed |-> "accepted",
                  board |-> [hexes |-> grown.snap,
                             regions |-> Push(b.regions,
                                              [hexes |-> grown.patch, owner |-> player,
                                               num_dice |-> 0, id |-> VecLen(b.regions)])]]
            ELSE RejectedAttempt(b, grown.snap)
    IN  CHOOSE out \in
            { Body(grown) :
                grown \in { Grow([patch |-> <<seed>>, snap |-> Insert(b.hexes, seed, player)],
                                 player, d.grow, hash) } } : TRUE

\* for patch in 0..NUMBER_OF_PATCHES { for player in 0..number_of_players {
NextSlot(patch, player, players) ==
    IF player + 1 < players THEN [patch |-> patch, player |-> player + 1]
    ELSE [patch |-> patch + 1, player |-> 0]

\* The slot the loops stand on after an attempt: the two `while` loops keep
\* a rejected attempt on its slot.
SlotAfter(placed, patch, player, players) ==
    IF placed = "retry" THEN [patch |-> patch, player |-> player]
    ELSE NextSlot(patch, player, players)

Min(a, b) == IF a < b THEN a ELSE b

RECURSIVE AllocateDice(_, _, _, _)
\* for region in board.regions.iter_mut(): region i gets the drawn count
\* ds[i + 1], which leaves the owner's budget.
AllocateDice(regions, i, budget, ds) ==
    IF i >= VecLen(regions) THEN [regions |-> regions, dice_budget |-> budget]
    ELSE LET o == regions[i].owner IN
         AllocateDice([regions EXCEPT ![i].num_dice = ds[i + 1]], i + 1,
                      [budget EXCEPT ![o] = @ - ds[i + 1]], ds)

RECURSIVE DiceDraws(_, _, _)
\* the draws of rng.gen_range(1..usize::min(4, dice_budget[&region.owner]))
DiceDraws(regions, i, budget) ==
    IF i >= VecLen(regions) THEN { <<>> }
    ELSE LET o == regions[i].owner IN
         UNION { { <<d>> \o rest :
                     rest \in DiceDraws(regions, i + 1, [budget EXCEPT ![o] = @ - d]) } :
                 d \in 1 .. Min(DICE_RANGE_END, budget[o]) - 1 }

RECURSIVE DiceRangeEmpties(_, _, _)
\* some draws lead to a region whose range 1..min(4, budget) is empty:
\* gen_range panics on an empty range
DiceRangeEmpties(regions, i, budget) ==
    /\ i < VecLen(regions)
    /\ LET o == regions[i].owner IN
       \/ Min(DICE_RANGE_END, budget[o]) <= 1
       \/ \E d \in 1 .. Min(DICE_RANGE_END, budget[o]) - 1 :
             DiceRangeEmpties(regions, i + 1, [budget EXCEPT ![o] = @ - d])

\* a budget of one die per patch
InitialBudget_OnePerPatch(players) == [p \in 0 .. players - 1 |-> MaxPatches]

\* dice_budget.insert(p, NUMBER_OF_PATCHES * 4) for every player
InitialBudget(players) == [p \in 0 .. players - 1 |-> MaxPatches * 4]

\* The variables of the game around GameState.
game_vars ==
    <<board, turn_of_player, turn_counter, number_of_players, game_log,
      selected_region, entities, clash_start_events, dice_roll_started, timers,
      clash_end_events, game_over_events, spawn_timers, respawn, pc,
      game_over_sent, processed>>

\* generate_board has been called; no GameState exists yet.
GenInitFor(games) ==
    /\ \E g \in games :
          gen = [phase |-> "entry", players |-> g.players, area |-> g.area, wide |-> g.wide,
                 patch_size |-> 0, patch |-> 0, player |-> 0, board |-> EmptyBoard,
                 stream |-> <<>>, dice_stream |-> <<>>, dice_budget |-> <<>>,
                 retries |-> 0]
    /\ board = EmptyBoard
    /\ turn_of_player = 0
    /\ turn_counter = 0
    /\ number_of_players = 0
    /\ game_log = <<>>
    /\ selected_region = None
    /\ entities = <<>>
    /\ clash_start_events = <<>>
    /\ dice_roll_started = <<>>
    /\ timers = 0
    /\ clash_end_events = <<>>
    /\ game_over_events = <<>>
    /\ spawn_timers = 0
    /\ respawn = <<>>
    /\ pc = "generate_board"
    /\ game_over_sent = 0
    /\ processed = <<>>
    /\ apps = <<>>

GenInit == GenInitFor(GenGames)

\* The patch_size computation, Board::default() and the entry into the
\* loops: with no player there is no slot to fill.
generate_board_entry ==
    /\ pc = "generate_board"
    /\ gen.phase = "entry"
    /\ IF patch_size(gen.area, gen.players).panic
       THEN gen' = [gen EXCEPT !.phase = "panicked"]
       ELSE gen' = [gen EXCEPT !.patch_size = patch_size(gen.area, gen.players).value,
                               !.phase = IF MaxPatches > 0 /\ gen.players > 0
                                         THEN "patches" ELSE "dice"]
    /\ UNCHANGED <<game_vars, apps>>

\* The draws of one attempt at slot (patch, player) that the model
\* explores, each with what the loop body makes of it.
Attempts(b, patch, player, size, hash, wide) ==
    UNION { { [d |-> [q |-> seed[1], r |-> seed[2], grow |-> ds],
               out |-> generate_patch(b, patch, player,
                                      [q |-> seed[1], r |-> seed[2], grow |-> ds], hash)] :
                ds \in IF is_starting_point_valid(b.hexes, seed)
                       THEN GrowDraws([patch |-> <<seed>>,
                                       snap |-> Insert(b.hexes, seed, player)],
                                      player, size, wide)
                       ELSE { <<>> } } :
            seed \in SeedCoords \X SeedCoords }

\* The attempts that end the slot; in a game explored `wide`, when none of
\* them stays within Land, those that grow out of it.
SlotEnds(b, patch, player, size, hash, wide) ==
    CHOOSE ends \in
        { IF inside # {} \/ ~ wide THEN inside
          ELSE { a \in Attempts(b, patch, player, size, hash, TRUE) : a.out.placed # "retry" } :
            inside \in { { a \in Attempts(b, patch, player, size, hash, FALSE) :
                             a.out.placed # "retry" } } } : TRUE

\* One slot of the patch loops, with the draws that end it: the patch
\* becomes a region, or stays at its seed and the slot ends without one.
generate_board_patch ==
    /\ pc = "generate_board"
    /\ gen.phase = "patches"
    /\ \E hash \in HashOrders :
        \E a \in SlotEnds(gen.board, gen.patch, gen.player, gen.patch_size, hash, gen.wide) :
            \E nxt \in { SlotAfter(a.out.placed, gen.patch, gen.player, gen.players) } :
                gen' = [gen EXCEPT !.board = a.out.board,
                                   !.patch = nxt.patch,
                                   !.player = nxt.player,
                                   !.stream = Append(@, a.d),
                                   !.phase = IF nxt.patch >= MaxPatches
                                             THEN "dice" ELSE "patches"]
    /\ UNCHANGED <<game_vars, apps>>

\* One rejected attempt: the sampled seed is already assigned, or the grown
\* patch touches nothing that is on the board.
generate_board_retry ==
    /\ pc = "generate_board"
    /\ gen.phase = "patches"
    /\ \E hash \in HashOrders :
        \E a \in Attempts(gen.board, gen.patch, gen.player, gen.patch_size, hash, FALSE) :
            \E nxt \in { SlotAfter(a.out.placed, gen.patch, gen.player, gen.players) } :
                /\ a.out.placed = "retry"
                /\ gen' = [gen EXCEPT !.board = a.out.board,
                                      !.patch = nxt.patch,
                                      !.player = nxt.player,
                                      !.retries = Min(@ + 1, MaxRetries)]
    /\ UNCHANGED <<game_vars, apps>>

\* The dice allocation loop, then `board` is returned.
generate_board_dice ==
    /\ pc = "generate_board"
    /\ gen.phase = "dice"
    /\ \/ \E ds \in DiceDraws(gen.board.regions, 0, InitialBudget(gen.players)) :
            LET out == AllocateDice(gen.board.regions, 0, InitialBudget(gen.players), ds)
            IN  gen' = [gen EXCEPT !.board.regions = out.regions,
                                   !.dice_budget = out.dice_budget,
                                   !.dice_stream = ds,
                                   !.phase = "returned"]
       \/ /\ DiceRangeEmpties(gen.board.regions, 0, InitialBudget(gen.players))
          /\ gen' = [gen EXCEPT !.phase = "panicked"]
    /\ UNCHANGED <<game_vars, apps>>

\* build_app: the GameState resource around the returned board, and the
\* startup draw_board.
build_app ==
    /\ pc = "generate_board"
    /\ gen.phase = "returned"
    /\ gen' = [gen EXCEPT !.phase = "built"]
    /\ board' = gen.board
    /\ number_of_players' = gen.players
    /\ turn_of_player' = 0
    /\ turn_counter' = 0
    /\ game_log' = <<>>
    /\ entities' = draw_board(gen.board.regions, <<>>, 0, 0)
    /\ pc' = "event_region_clash"
    /\ UNCHANGED <<selected_region, clash_start_events, dice_roll_started, timers,
                   clash_end_events, game_over_events, spawn_timers, respawn,
                   game_over_sent, processed, apps>>

GenNext ==
    \/ generate_board_entry
    \/ generate_board_patch
    \/ generate_board_retry
    \/ generate_board_dice
    \/ build_app

GenSpec == GenInit /\ [][GenNext]_vars

\* The runs of the games with short growth loops, under fair random
\* choices: draws that end the slot and stay possible attempt
\* after attempt are drawn in the end; the straight-line parts of
\* generate_board run on.
FairGenSpec ==
    /\ GenInitFor({ g \in GenGames : g.wide })
    /\ [][GenNext]_vars
    /\ WF_vars(generate_board_entry)
    /\ WF_vars(generate_board_patch)
    /\ WF_vars(generate_board_dice)

RECURSIVE ReplayPatches(_, _, _, _, _)
\* The patch loops run again on a recorded stream of draws.
ReplayPatches(b, patch, player, players, draws) ==
    IF draws = <<>> THEN b
    ELSE LET out == generate_patch(b, patch, player, Head(draws), 0)
             nxt == NextSlot(patch, player, players)
         IN  ReplayPatches(out.board, nxt.patch, nxt.player, players, Tail(draws))

\* generate_board run again with the same number_of_players on the same
\* stream of draws.
Replay(players, stream, dice_stream) ==
    LET b == ReplayPatches(EmptyBoard, 0, 0, players, stream)
    IN  [b EXCEPT !.regions =
                     AllocateDice(b.regions, 0, InitialBudget(players), dice_stream).regions]

\* board.regions.iter(): the regions in index order
RegionSeq(regions) == [i \in 1 .. VecLen(regions) |-> regions[i - 1]]

\* the inner loop: the pairs (region1, region2) with region1.is_opponent(region2)
MovesFrom(region1, all) ==
    SelectSeq([j \in 1 .. Len(all) |-> <<region1, all[j]>>],
              LAMBDA m : is_opponent(m[1], m[2]))

RECURSIVE MovesOfAll(_, _)
\* the outer loop over regions_owned_by_player
MovesOfAll(own, all) ==
    IF own = <<>> THEN <<>>
    ELSE MovesFrom(Head(own), all) \o MovesOfAll(Tail(own), all)

\* the moves of every region, whoever owns it
possible_moves_AnyOwner ==
    MovesOfAll(RegionSeq(board.regions), RegionSeq(board.regions))

\* GameState::possible_moves
possible_moves ==
    LET regions_owned_by_player ==
            SelectSeq(RegionSeq(board.regions), LAMBDA region : region.owner = turn_of_player)
    IN  MovesOfAll(regions_owned_by_player, RegionSeq(board.regions))

\* ----------------------------------------------------------- tiered_prng
\* The seeds explored (u64 values; 0 is the value PrngResource::from_world
\* gives an app that was handed no seed).
Seeds == 0 .. 2

\* The longest run of draws taken from a map stream.
MaxDraws == 2

\* ChaCha20Rng::seed_from_u64: a stream is its key and the position reached.
seed_from_u64(seed) == [key |-> seed, pos |-> 0]

\* The next value of a stream: a function of the key and the position
\* (ChaCha20's block function is scaled down to a keyed mix modulo 7).
StreamValue(rng) == (rng.key * 5 + rng.pos * 3 + rng.key * rng.pos + 1) % 7

\* rng.gen_range(..): the value drawn and the stream after the draw
gen_range(rng) == [value |-> StreamValue(rng), rng |-> [rng EXCEPT !.pos = @ + 1]]

\* tiered_prng::get_randomness, the streams it may return: the stream
\* of the seed, or for the sentinel 0 the stream of a freshly drawn seed.
get_randomness(seed) ==
    IF seed = 0 THEN { seed_from_u64(s) : s \in Seeds \ {0} }
    ELSE { seed_from_u64(seed) }

\* the map stream keyed by both seeds
map_seed_Mixed(seeds) == seeds.world_seed + seeds.env_seed

\* PrngPlugin::build: ChaCha20Rng::seed_from_u64(seeds.world_seed)
map_seed(seeds) == seeds.world_seed

\* Two startups (two calls of build_app) side by side, each with the seeds
\* it was handed.
SeedInit ==
    /\ apps \in [ {1, 2} -> [world_seed : Seeds, env_seed : Seeds, phase : {"start"},
                              prng_resource : {None}, board_rng : {None},
                              map_rng : {None}, draws : {<<>>}] ]
    /\ board = EmptyBoard
    /\ turn_of_player = 0
    /\ turn_counter = 0
    /\ number_of_players = 0
    /\ game_log = <<>>
    /\ selected_region = None
    /\ entities = <<>>
    /\ clash_start_events = <<>>
    /\ dice_roll_started = <<>>
    /\ timers = 0
    /\ clash_end_events = <<>>
    /\ game_over_events = <<>>
    /\ spawn_timers = 0
    /\ respawn = <<>>
    /\ pc = "build_app"
    /\ game_over_sent = 0
    /\ processed = <<>>
    /\ gen = None

\* build_app up to the PrngResource: the stream handed to generate_board
\* and the resource holding the two seeds as given.
build_app_seeds ==
    \E a \in DOMAIN apps :
        /\ apps[a].phase = "start"
        /\ \E rng \in get_randomness(apps[a].world_seed) :
              apps' = [apps EXCEPT ![a].board_rng = rng,
                                   ![a].prng_resource = [world_seed |-> apps[a].world_seed,
                                                         env_seed |-> apps[a].env_seed],
                                   ![a].phase = "seeded"]
        /\ UNCHANGED <<game_vars, gen>>

\* PrngPlugin::build: the PrngMapResource
PrngPlugin_build ==
    \E a \in DOMAIN apps :
        /\ apps[a].phase = "seeded"
        /\ apps' = [apps EXCEPT ![a].map_rng = seed_from_u64(map_seed(apps[a].prng_resource)),
                                ![a].phase = "built"]
        /\ UNCHANGED <<game_vars, gen>>

\* map_prng.rng.gen_range(..): a draw from the map stream
map_prng_draw ==
    \E a \in DOMAIN apps :
        /\ apps[a].phase = "built"
        /\ Len(apps[a].draws) < MaxDraws
        /\ apps' = [apps EXCEPT ![a].draws = Append(@, gen_range(apps[a].map_rng).value),
                                ![a].map_rng = gen_range(apps[a].map_rng).rng]
        /\ UNCHANGED <<game_vars, gen>>

SeedNext ==
    \/ build_app_seeds
    \/ PrngPlugin_build
    \/ map_prng_draw

SeedSpec == SeedInit /\ [][SeedNext]_vars

\* ------------------------------------------------------- the frame loop
SystemOrder ==
    << "event_region_clash", "event_dice_roll_result", "event_dice_rolls_complete",
       "event_region_clash_end", "event_game_over", "apply_buffers",
       "event_region_selected" >>

\* What the systems of a frame would find to read.
Work ==
    [starts |-> clash_start_events, requests |-> dice_roll_started, timers |-> timers,
     game_overs |-> game_over_events, spawns |-> spawn_timers, respawn |-> respawn]

HasWork(sys, w) ==
    CASE sys = "event_region_clash" -> w.starts # <<>>
      [] sys = "event_dice_roll_result" -> w.requests # <<>>
      [] sys = "event_dice_rolls_complete" -> w.timers > 0
      [] sys = "event_game_over" -> w.game_overs # <<>>
      [] sys = "apply_buffers" -> w.spawns > 0 \/ w.respawn # <<>>
      [] OTHER -> TRUE

RECURSIVE FirstWithWork(_, _)
FirstWithWork(k, w) ==
    IF HasWork(SystemOrder[k], w) THEN SystemOrder[k]
    ELSE FirstWithWork((k % Len(SystemOrder)) + 1, w)

\* The system that runs after `sys`, given what is there to read.
After(sys, w) ==
    LET k == CHOOSE i \in DOMAIN SystemOrder : SystemOrder[i] = sys
    IN  FirstWithWork((k % Len(SystemOrder)) + 1, w)

\* ------------------------------------------------- event_region_selected
\* The picking collaborator delivers at most one JustSelected per frame, on
\* an entity that carries a PickableBundle.
Pickable == { i \in DOMAIN entities : entities[i].pickable }

\* a selection handler that keeps the pending attacker after an attack click
event_region_selected_KeepingAttacker ==
    /\ pc = "event_region_selected"
    /\ \/ UNCHANGED <<selected_region, clash_start_events>>
       \/ \E i \in Pickable :
            LET region == entities[i].region IN
            IF region.owner # turn_of_player
            THEN /\ UNCHANGED selected_region
                 /\ IF selected_region # None /\ is_opponent(selected_region, region)
                    THEN /\ Len(game_log) + Len(clash_start_events) < MaxLog
                         /\ clash_start_events' =
                              Append(clash_start_events,
                                     [region_1 |-> selected_region, region_2 |-> region])
                    ELSE UNCHANGED clash_start_events
            ELSE /\ selected_region' = region
                 /\ UNCHANGED clash_start_events
    /\ UNCHANGED <<board, turn_of_player, turn_counter, number_of_players, game_log,
                   entities, dice_roll_started, timers, clash_end_events,
                   game_over_events, spawn_timers, respawn, game_over_sent, processed>>
    /\ UNCHANGED <<gen, apps>>
    /\ pc' = After("event_region_selected", Work')

\* a handler that takes the first click as the attacker, whoever owns it
event_region_selected_AnyAttacker(cap) ==
    /\ pc = "event_region_selected"
    /\ \/ UNCHANGED <<selected_region, clash_start_events>>
       \/ \E i \in Pickable :
            LET region == entities[i].region IN
            IF selected_region # None
            THEN /\ selected_region' = None
                 /\ IF selected_region # None /\ is_opponent(selected_region, region)
                    THEN /\ Len(game_log) + Len(clash_start_events) < cap
                         /\ clash_start_events' =
                              Append(clash_start_events,
                                     [region_1 |-> selected_region, region_2 |-> region])
                    ELSE UNCHANGED clash_start_events
            ELSE /\ selected_region' = region
                 /\ UNCHANGED clash_start_events
    /\ UNCHANGED <<board, turn_of_player, turn_counter, number_of_players, game_log,
                   entities, dice_roll_started, timers, clash_end_events,
                   game_over_events, spawn_timers, respawn, game_over_sent, processed>>
    /\ UNCHANGED <<gen, apps>>
    /\ pc' = After("event_region_selected", Work')

\* The handler, exploring the clicks that leave at most `cap` clashes in
\* the log and on their way to it.
event_region_selected_within(cap) ==
    /\ pc = "event_region_selected"
    /\ \/ UNCHANGED <<selected_region, clash_start_events>>
       \/ \E i \in Pickable :
            LET region == entities[i].region IN
            IF region.owner # turn_of_player
            THEN /\ selected_region' = None
                 /\ IF selected_region # None /\ is_opponent(selected_region, region)
                    THEN /\ Len(game_log) + Len(clash_start_events) < cap
                         /\ clash_start_events' =
                              Append(clash_start_events,
                                     [region_1 |-> selected_region, region_2 |-> region])
                    ELSE UNCHANGED clash_start_events
            ELSE /\ selected_region' = region
                 /\ UNCHANGED clash_start_events
    /\ UNCHANGED <<board, turn_of_player, turn_counter, number_of_players, game_log,
                   entities, dice_roll_started, timers, clash_end_events,
                   game_over_events, spawn_timers, respawn, game_over_sent, processed>>
    /\ UNCHANGED <<gen, apps>>
    /\ pc' = After("event_region_selected", Work')

event_region_selected == event_region_selected_within(MaxLog)

\* ---------------------------------------------------- event_region_clash
GameLogEntry(e, top, tc) ==
    [turn_of_player |-> top, region_1 |-> e.region_1, region_2 |-> e.region_2,
     dice_1_sum |-> 0, dice_2_sum |-> 0, turn_counter |-> tc]

\* the request with the two sides in the wrong order
DiceRollStartEvent_Swapped(e) == [num_dice |-> <<e.region_2.num_dice, e.region_1.num_dice>>]

DiceRollStartEvent(e) == [num_dice |-> <<e.region_1.num_dice, e.region_2.num_dice>>]

RECURSIVE PushEntries(_, _, _, _)
PushEntries(log, evs, top, tc) ==
    IF evs = <<>> THEN log
    ELSE PushEntries(Append(log, GameLogEntry(Head(evs), top, tc)), Tail(evs), top, tc)

event_region_clash ==
    /\ pc = "event_region_clash"
    /\ game_log' = PushEntries(game_log, clash_start_events, turn_of_player, turn_counter)
    /\ dice_roll_started' =
         dice_roll_started \o [i \in 1 .. Len(clash_start_events) |->
                                  DiceRollStartEvent(clash_start_events[i])]
    /\ spawn_timers' = spawn_timers + Len(clash_start_events)
    /\ clash_start_events' = <<>>
    /\ UNCHANGED <<board, turn_of_player, turn_counter, number_of_players,
                   selected_region, entities, timers, clash_end_events,
                   game_over_events, respawn, game_over_sent, processed>>
    /\ UNCHANGED <<gen, apps>>
    /\ pc' = After("event_region_clash", Work')

\* ------------------------------------------------ event_dice_roll_result
\* The dice collaborator answers the oldest open request with one list of
\* face values per side, sized as requested.
DiceRollResults(req) ==
    { [values |-> <<v1, v2>>] :
        v1 \in [1 .. req.num_dice[1] -> Faces],
        v2 \in [1 .. req.num_dice[2] -> Faces] }

\* the sums stored into the oldest entry instead of the last one
StoreSums_FirstEntry(log, event) ==
    [log EXCEPT ![1].dice_1_sum = SumSeq(event.values[1]),
                ![1].dice_2_sum = SumSeq(event.values[2])]

\* game_log.last_mut().unwrap(), then the two sums
StoreSums(log, event) ==
    [log EXCEPT ![Len(log)].dice_1_sum = SumSeq(event.values[1]),
                ![Len(log)].dice_2_sum = SumSeq(event.values[2])]

event_dice_roll_result ==
    /\ pc = "event_dice_roll_result"
    /\ \/ UNCHANGED <<game_log, dice_roll_started>>
       \/ /\ dice_roll_started # <<>>
          /\ \E event \in DiceRollResults(Head(dice_roll_started)) :
                game_log' = StoreSums(game_log, event)
          /\ dice_roll_started' = Tail(dice_roll_started)
    /\ UNCHANGED <<board, turn_of_player, turn_counter, number_of_players,
                   selected_region, entities, clash_start_events, timers,
                   clash_end_events, game_over_events, spawn_timers, respawn,
                   game_over_sent, processed>>
    /\ UNCHANGED <<gen, apps>>
    /\ pc' = After("event_dice_roll_result", Work')

\* --------------------------------------------- event_dice_rolls_complete
EventRegionClashEnd(entry) ==
    [region1 |-> entry.region_1, region2 |-> entry.region_2,
     dice_1_sum |-> entry.dice_1_sum, dice_2_sum |-> entry.dice_2_sum]

\* Timers run for the same 3 s, so the ones that finish on a tick are the
\* oldest j of them; each finished timer sends a clash-end built from the
\* last log entry.
event_dice_rolls_complete ==
    /\ pc = "event_dice_rolls_complete"
    /\ \E j \in 0 .. timers :
          /\ timers' = timers - j
          /\ clash_end_events' =
               clash_end_events \o
               [i \in 1 .. j |-> EventRegionClashEnd(game_log[Len(game_log)])]
    /\ UNCHANGED <<board, turn_of_player, turn_counter, number_of_players, game_log,
                   selected_region, entities, clash_start_events, dice_roll_started,
                   game_over_events, spawn_timers, respawn, game_over_sent, processed>>
    /\ UNCHANGED <<gen, apps>>
    /\ pc' = After("event_dice_rolls_complete", Work')

\* ------------------------------------------------ event_region_clash_end
\* num_dice is a usize: a subtraction below zero aborts a debug build and
\* wraps in a release build.  USIZE_MOD stands for 2^64, which TLC's
\* integers cannot hold.
USIZE_MOD == 2 ^ 30

\* e.dice_1_sum > e.dice_2_sum
AttackerWins_TieToAttacker(e) == e.dice_1_sum >= e.dice_2_sum

AttackerWins(e) == e.dice_1_sum > e.dice_2_sum

\* rng.gen_range(1..n), drawn only when n > 1
SplitDraws(n) == IF n > 1 THEN 1 .. n - 1 ELSE {0}

\* a capture that hands over every region of the losing region's owner
Capture_OwnerToAll(regions, w, lid, k) ==
    { [ok |-> TRUE,
       regions |-> [i \in DOMAIN regions |->
                      IF regions[i].owner = regions[lid].owner
                      THEN [regions[i] EXCEPT !.owner = w.owner]
                      ELSE regions[i]]] }

\* One branch of the clash-end loop body: region `lid` goes to the owner in
\* the winner's snapshot `w`; with k drawn, it gets k dice and the winner's
\* board region loses k - 1.
Capture(regions, w, lid, k) ==
    LET owned == [regions EXCEPT ![lid].owner = w.owner] IN
    IF w.num_dice > 1
    THEN LET split == [owned EXCEPT ![lid].num_dice = k]
             have == split[w.id].num_dice
             take == split[lid].num_dice - 1
         IN  IF have >= take
             THEN { [ok |-> TRUE, regions |-> [split EXCEPT ![w.id].num_dice = have - take]] }
             ELSE { [ok |-> FALSE, regions |-> split],
                    [ok |-> TRUE,
                     regions |-> [split EXCEPT ![w.id].num_dice = have - take + USIZE_MOD]] }
    ELSE { [ok |-> TRUE, regions |-> owned] }

\* The loop body for one EventRegionClashEnd: every board it can leave.
ResolveClash(regions, e) ==
    IF AttackerWins(e)
    THEN UNION { Capture(regions, e.region1, e.region2.id, k) : k \in SplitDraws(e.region1.num_dice) }
    ELSE UNION { Capture(regions, e.region2, e.region1.id, k) : k \in SplitDraws(e.region2.num_dice) }

RECURSIVE ClashEndLoop(_, _)
\* for e in region_clash_end_event_reader.iter() { ... }
ClashEndLoop(out, evs) ==
    IF evs = <<>> \/ ~out.ok THEN {out}
    ELSE UNION { ClashEndLoop(o, Tail(evs)) : o \in ResolveClash(out.regions, Head(evs)) }

\* every region of the player, whether or not it attacked this turn
regions_able_to_move_this_turn_IgnoringLog(regions, log, tc, top) ==
    { i \in DOMAIN regions : regions[i].owner = top }

\* ids of the regions that attacked under the current (turn_counter, turn_of_player)
region_made_move_this_turn(log, tc, top) ==
    { log[i].region_1.id : i \in { j \in DOMAIN log :
        log[j].turn_counter = tc /\ log[j].turn_of_player = top } }

regions_able_to_move_this_turn(regions, log, tc, top) ==
    { i \in DOMAIN regions :
        /\ regions[i].owner = top
        /\ regions[i].id \notin region_made_move_this_turn(log, tc, top) }

\* the regions left to move, whether or not they have an opponent
number_of_unblocked_regions_IgnoringOpponents(regions, log, tc, top) ==
    Cardinality(regions_able_to_move_this_turn(regions, log, tc, top))

number_of_unblocked_regions(regions, log, tc, top) ==
    Cardinality({ i \in regions_able_to_move_this_turn(regions, log, tc, top) :
        \E j \in DOMAIN regions : is_opponent(regions[j], regions[i]) })

\* a rotation that never wraps back to player 0
NextPlayer_NoWrap(top, n) == top + 1

\* turn_of_player += 1; if turn_of_player >= number_of_players { turn_of_player = 0 }
NextPlayer(top, n) == IF top + 1 >= n THEN 0 ELSE top + 1

\* regions_by_player: owner -> number of regions
regions_by_player(regions) ==
    [p \in { regions[i].owner : i \in DOMAIN regions } |->
        Cardinality({ i \in DOMAIN regions : regions[i].owner = p })]

\* the players who own at least half of the regions
Winners_Majority(regions) ==
    { p \in { regions[i].owner : i \in DOMAIN regions } :
        2 * Cardinality({ i \in DOMAIN regions : regions[i].owner = p }) >= VecLen(regions) }

\* the players whose count equals board.regions.len()
Winners(regions) ==
    { p \in DOMAIN regions_by_player(regions) :
        regions_by_player(regions)[p] = VecLen(regions) }

ProcessedIds(evs) == [i \in 1 .. Len(evs) |-> <<evs[i].region1.id, evs[i].region2.id>>]

event_region_clash_end ==
    /\ pc = "event_region_clash_end"
    /\ \E out \in ClashEndLoop([ok |-> TRUE, regions |-> board.regions], clash_end_events) :
        IF ~out.ok
        THEN /\ pc' = "panicked"
             /\ UNCHANGED <<gen, apps>>
             /\ UNCHANGED <<board, turn_of_player, turn_counter, number_of_players,
                            game_log, selected_region, entities, clash_start_events,
                            dice_roll_started, timers, clash_end_events,
                            game_over_events, spawn_timers, respawn, game_over_sent,
                            processed>>
        ELSE
        LET regions == out.regions
            redraw_board == clash_end_events # <<>>
            advance == number_of_unblocked_regions(regions, game_log, turn_counter,
                                                   turn_of_player) = 0
            top2 == IF advance THEN NextPlayer(turn_of_player, number_of_players)
                    ELSE turn_of_player
            tc2 == IF advance THEN turn_counter + 1 ELSE turn_counter
        IN
        /\ advance => turn_counter < MaxTurn
        /\ board' = [board EXCEPT !.regions = regions]
        /\ turn_of_player' = top2
        /\ turn_counter' = tc2
        /\ processed' = processed \o ProcessedIds(clash_end_events)
        /\ clash_end_events' = <<>>
        /\ IF Winners(regions) # {}
           THEN /\ \E w \in Winners(regions) :
                     game_over_events' = Append(game_over_events, [winner |-> w])
                /\ game_over_sent' = game_over_sent + 1
                /\ respawn' = IF redraw_board THEN << <<>> >> ELSE respawn
                /\ UNCHANGED selected_region
           ELSE /\ UNCHANGED <<game_over_events, game_over_sent>>
                /\ IF redraw_board
                   THEN /\ selected_region' = None
                        /\ respawn' = << draw_board(regions, game_log, tc2, top2) >>
                   ELSE UNCHANGED <<selected_region, respawn>>
        /\ UNCHANGED <<number_of_players, game_log, entities, clash_start_events,
                       dice_roll_started, timers, spawn_timers>>
        /\ UNCHANGED <<gen, apps>>
        /\ pc' = After("event_region_clash_end", Work')

\* -------------------------------------------------------- event_game_over
\* Every EventGameOver despawns the board and UI entities.
event_game_over ==
    /\ pc = "event_game_over"
    /\ respawn' = IF game_over_events # <<>> THEN << <<>> >> ELSE respawn
    /\ game_over_events' = <<>>
    /\ UNCHANGED <<board, turn_of_player, turn_counter, number_of_players, game_log,
                   selected_region, entities, clash_start_events, dice_roll_started,
                   timers, clash_end_events, spawn_timers, game_over_sent, processed>>
    /\ UNCHANGED <<gen, apps>>
    /\ pc' = After("event_game_over", Work')

\* ----------------------------------------------------------- stage end
\* The Update stage ends by applying the Commands its systems queued: the
\* DiceRollTimer spawns of event_region_clash and the despawns / spawns of
\* the board entities.
apply_buffers ==
    /\ pc = "apply_buffers"
    /\ timers' = timers + spawn_timers
    /\ spawn_timers' = 0
    /\ entities' = IF respawn # <<>> THEN respawn[1] ELSE entities
    /\ respawn' = <<>>
    /\ UNCHANGED <<board, turn_of_player, turn_counter, number_of_players, game_log,
                   selected_region, clash_start_events, dice_roll_started,
                   clash_end_events, game_over_events, game_over_sent, processed>>
    /\ UNCHANGED <<gen, apps>>
    /\ pc' = After("apply_buffers", Work')

Next ==
    \/ event_region_clash
    \/ event_dice_roll_result
    \/ event_dice_rolls_complete
    \/ event_region_clash_end
    \/ event_game_over
    \/ apply_buffers
    \/ event_region_selected

Spec == Init /\ [][Next]_vars

\* Frames keep running: the app's schedule runs every system once per frame.
FairSpec == Spec /\ WF_vars(Next)

\* The same frame loop, started on the games of DiceGames.
DiceSpec == DiceInit /\ [][Next]_vars

\* The pair game alone, with room for one more clash than MaxLog: the
\* arithmetic of a third resolution.
PairGame == { g \in DiceGames : g.players = 2 }

PairInit == GameInit(PairGame)

PairNext ==
    \/ event_region_clash
    \/ event_dice_roll_result
    \/ event_dice_rolls_complete
    \/ event_region_clash_end
    \/ event_game_over
    \/ apply_buffers
    \/ event_region_selected_within(MaxLog + 1)

PairSpec == PairInit /\ [][PairNext]_vars

\* ================================================================ claims
ClashEndRuns == pc = "event_region_clash_end" /\ pc' \notin {"event_region_clash_end", "panicked"}

Owners(regions) == { regions[i].owner : i \in DOMAIN regions }

\* C1: a clash-end with attacker sum > defender sum gives the defending
\* region to the attacker's owner and leaves the attacking region's owner
\* alone; otherwise (ties included) the attacking region goes to the
\* defender's owner and the defending region's owner is left alone.
C1_ClashResolution ==
    [][ClashEndRuns =>
        \A i \in DOMAIN clash_end_events :
            LET e == clash_end_events[i] IN
            IF e.dice_1_sum > e.dice_2_sum
            THEN /\ board'.regions[e.region2.id].owner = e.region1.owner
                 /\ board'.regions[e.region1.id].owner = board.regions[e.region1.id].owner
            ELSE /\ board'.regions[e.region1.id].owner = e.region2.owner
                 /\ board'.regions[e.region2.id].owner = board.regions[e.region2.id].owner]_vars

\* A resolved clash the attacker won has handed the defender over.
C1_Witness ==
    /\ processed # <<>>
    /\ game_log # <<>>
    /\ LET gl == game_log[Len(game_log)] IN
        /\ gl.dice_1_sum > gl.dice_2_sum
        /\ board.regions[gl.region_2.id].owner = gl.region_1.owner
        /\ board.regions[gl.region_2.id].owner # gl.region_2.owner

\* C2: at a turn evaluation, with U the current player's regions that are
\* not region_1 of a log entry stamped (turn_counter, turn_of_player) and
\* that have an opponent region: U empty moves turn_of_player to the next
\* player modulo number_of_players and adds 1 to turn_counter; U non-empty
\* leaves both unchanged.
C2_TurnAdvance ==
    [][ClashEndRuns =>
        LET rs == board'.regions
            U == { i \in DOMAIN rs :
                    /\ rs[i].owner = turn_of_player
                    /\ ~ \E j \in DOMAIN game_log :
                          /\ game_log[j].turn_counter = turn_counter
                          /\ game_log[j].turn_of_player = turn_of_player
                          /\ game_log[j].region_1.id = rs[i].id
                    /\ \E k \in DOMAIN rs : is_opponent(rs[i], rs[k]) }
        IN  IF U = {}
            THEN /\ turn_of_player' = (turn_of_player + 1) % number_of_players
                 /\ turn_counter' = turn_counter + 1
            ELSE /\ turn_of_player' = turn_of_player
                 /\ turn_counter' = turn_counter]_vars

\* The turn has passed from a player whose regions had all attacked, in a
\* game still being played.
C2_Witness ==
    /\ turn_counter = 1
    /\ Cardinality(Owners(board.regions)) >= 2
    /\ \E i \in DOMAIN board.regions :
          /\ board.regions[i].owner = 0
          /\ \E k \in DOMAIN board.regions : is_opponent(board.regions[i], board.regions[k])

\* C3: a win check sends the game-over signal with winner w exactly when
\* every region is owned by w; with two or more owners it sends none.
C3_WinDetection ==
    [][ClashEndRuns =>
        /\ \A w \in 0 .. number_of_players - 1 :
              (game_over_events' = Append(game_over_events, [winner |-> w]))
                <=> (\A i \in DOMAIN board'.regions : board'.regions[i].owner = w)
        /\ Cardinality(Owners(board'.regions)) >= 2 => game_over_events' = game_over_events]_vars

\* The signal has been sent for the player who owns every region.
C3_Witness ==
    /\ game_over_events # <<>>
    /\ \A i \in DOMAIN board.regions : board.regions[i].owner = game_over_events[1].winner

\* C4: no two game_log entries with the same (turn_counter, turn_of_player)
\* stamp have the same region_1.id.
C4_OneAttackPerTurn ==
    \A i, j \in DOMAIN game_log :
        (/\ i # j
         /\ game_log[i].turn_counter = game_log[j].turn_counter
         /\ game_log[i].turn_of_player = game_log[j].turn_of_player)
        => game_log[i].region_1.id # game_log[j].region_1.id

\* C5: at most one clash is outstanding: no second roll timer is started
\* before the first clash is resolved.
C5_OneOutstandingClash == timers + spawn_timers <= 1

\* C6: every clash-end sent carries the sums of the faces the dice
\* collaborator returned (both non-zero), never the placeholder 0/0.
C6_ResolvedAfterRoll ==
    \A i \in DOMAIN clash_end_events :
        clash_end_events[i].dice_1_sum # 0 /\ clash_end_events[i].dice_2_sum # 0

ClashPending ==
    \/ timers + spawn_timers > 0
    \/ clash_start_events # <<>>
    \/ clash_end_events # <<>>

Count(seq, x) == Cardinality({ i \in DOMAIN seq : seq[i] = x })

LogIds == [i \in DOMAIN game_log |-> <<game_log[i].region_1.id, game_log[i].region_2.id>>]

\* C7: every started clash is resolved, and exactly once: when no clash is
\* pending, the clash-ends processed carry each (attacker, defender) pair
\* as many times as the log holds an entry of that pair.
C7_ResolvedExactlyOnce ==
    ~ ClashPending =>
        \A a, d \in DOMAIN board.regions :
            Count(processed, <<a, d>>) = Count(LogIds, <<a, d>>)

\* C8: once the game-over signal has been sent, turn_of_player,
\* turn_counter, the board and game_log never change again.
C8_GameOverTerminal ==
    [][game_over_sent > 0 =>
        UNCHANGED <<turn_of_player, turn_counter, board, game_log>>]_vars

\* C9: the game-over signal is sent at most once per game.
C9_GameOverOnce == game_over_sent <= 1

HasLegalAttack ==
    \E i \in DOMAIN board.regions :
        /\ board.regions[i].owner = turn_of_player
        /\ ~ \E j \in DOMAIN game_log :
              /\ game_log[j].turn_counter = turn_counter
              /\ game_log[j].turn_of_player = turn_of_player
              /\ game_log[j].region_1.id = i
        /\ \E k \in DOMAIN board.regions : is_opponent(board.regions[i], board.regions[k])

\* C10: whenever two or more owners hold regions and no clash is pending,
\* the game reaches a state whose current player has a region that has not
\* attacked this turn and has an opponent region (stated for the turns the
\* model explores: MaxTurn leaves room for a full rotation).
C10_NonDeadlock ==
    (/\ Cardinality(Owners(board.regions)) >= 2
     /\ ~ ClashPending
     /\ pc # "panicked"
     /\ turn_counter + number_of_players - 1 <= MaxTurn) ~> HasLegalAttack

\* The turn stands on an eliminated player while two others still play.
C10_Witness ==
    /\ Cardinality(Owners(board.regions)) >= 2
    /\ ~ ClashPending
    /\ turn_counter + number_of_players - 1 <= MaxTurn
    /\ turn_of_player \notin Owners(board.regions)

\* C13: in every reachable state, for every hex key of board.hexes, exactly
\* one region holds the hex and that region's owner is the value board.hexes
\* stores for it.
C13_BoardInvariant ==
    \A h \in DOMAIN board.hexes :
        /\ Cardinality({ i \in DOMAIN board.regions : Contains(board.regions[i].hexes, h) }) = 1
        /\ board.regions[HexOwner(board.regions, h)].owner = board.hexes[h]

\* C16: in every reachable state every region has at least 1 die, and the
\* subtraction on the winner's region at a capture has not underflowed.
C16_DiceLowerBound ==
    /\ pc # "panicked"
    /\ \A i \in DOMAIN board.regions :
          board.regions[i].num_dice >= 1 /\ board.regions[i].num_dice < USIZE_MOD \div 2

\* The number of patch rounds generate_board ran (NUMBER_OF_PATCHES) for the
\* board in play: one region per player and round when no slot was dropped,
\* as in DiceGames.
PatchRounds == VecLen(board.regions) \div number_of_players

\* dice_budget: NUMBER_OF_PATCHES * 4 for every player
DiceBudget == PatchRounds * 4

RECURSIVE SumDice(_, _)
SumDice(regions, ids) ==
    IF ids = {} THEN 0
    ELSE LET i == CHOOSE x \in ids : TRUE
         IN  regions[i].num_dice + SumDice(regions, ids \ {i})

PlayerDice(p) == SumDice(board.regions, { i \in DOMAIN board.regions : board.regions[i].owner = p })

\* C17: in every reachable state the dice of the regions one player owns
\* sum to at most that player's initial budget, NUMBER_OF_PATCHES x 4.
C17_DiceBudget ==
    \A p \in 0 .. number_of_players - 1 : PlayerDice(p) <= DiceBudget

\* C18: when one clash-end is resolved and the winning region had n > 1
\* dice, the captured region gets some k in 1 .. n-1 dice and the winning
\* region loses exactly k-1; when it had exactly 1 die, neither dice count
\* changes.  The winner is the attacker if its sum is greater, else the
\* defender.
C18_DiceSplit ==
    [][(ClashEndRuns /\ Len(clash_end_events) = 1) =>
        LET e == clash_end_events[1]
            won == e.dice_1_sum > e.dice_2_sum
            w == IF won THEN e.region1.id ELSE e.region2.id
            l == IF won THEN e.region2.id ELSE e.region1.id
            n == board.regions[w].num_dice
        IN  IF n > 1
            THEN \E k \in 1 .. n - 1 :
                    /\ board'.regions[l].num_dice = k
                    /\ board'.regions[w].num_dice = n - (k - 1)
            ELSE /\ board'.regions[l].num_dice = board.regions[l].num_dice
                 /\ board'.regions[w].num_dice = board.regions[w].num_dice]_vars

\* C19: a step of the selection handler either receives no pick, or picks
\* a region: one owned by turn_of_player becomes the pending attacker and no
\* clash-start is sent; any other region clears the pending attacker, and a
\* clash-start (pending attacker, picked region) is sent exactly when a
\* pending attacker exists and is_opponent of the picked region.  Board,
\* turn fields and game log are never changed by it.
C19_SelectionLogic ==
    [][(pc = "event_region_selected" /\ pc' # pc) =>
        /\ UNCHANGED <<board, turn_of_player, turn_counter, number_of_players, game_log>>
        /\ \/ UNCHANGED <<selected_region, clash_start_events>>
           \/ \E i \in DOMAIN entities :
                LET chosen == entities[i].region
                    attack == /\ selected_region # None
                              /\ selected_region.owner # chosen.owner
                              /\ \E a \in DOMAIN selected_region.hexes, b \in DOMAIN chosen.hexes :
                                    chosen.hexes[b] \in neighbors(selected_region.hexes[a])
                IN  IF chosen.owner = turn_of_player
                    THEN /\ selected_region' = chosen
                         /\ clash_start_events' = clash_start_events
                    ELSE /\ selected_region' = None
                         /\ clash_start_events' =
                               IF attack
                               THEN Append(clash_start_events,
                                           [region_1 |-> selected_region, region_2 |-> chosen])
                               ELSE clash_start_events]_vars

\* An attack click has sent a clash-start and cleared the pending attacker.
C19_Witness ==
    /\ clash_start_events # <<>>
    /\ selected_region = None
    /\ is_opponent(clash_start_events[1].region_1, clash_start_events[1].region_2)


\* ---------------------------------------------------- generated boards
\* generate_board has returned its Board.
Returned == gen.phase \in {"returned", "built"}

\* The hexes of region i of the returned board, as a set.
Footprint(i) == { gen.board.regions[i].hexes[k] : k \in DOMAIN gen.board.regions[i].hexes }

RECURSIVE Reachable(_, _)
\* The hexes of S reached from `seen` by steps between neighbouring hexes of S.
Reachable(seen, S) ==
    LET more == { x \in S \ seen : \E y \in seen : x \in neighbors(y) }
    IN  IF more = {} THEN seen ELSE Reachable(seen \cup more, S)

Connected(S) == S = {} \/ Reachable({CHOOSE x \in S : TRUE}, S) = S

C12_Partition ==
    Returned =>
        /\ \A h \in DOMAIN gen.board.hexes :
              Cardinality(UNION { { <<i, k>> : k \in { x \in DOMAIN gen.board.regions[i].hexes :
                                                        gen.board.regions[i].hexes[x] = h } } :
                                  i \in DOMAIN gen.board.regions }) = 1
        /\ \A i \in DOMAIN gen.board.regions :
              \A k \in DOMAIN gen.board.regions[i].hexes :
                 /\ gen.board.regions[i].hexes[k] \in DOMAIN gen.board.hexes
                 /\ gen.board.hexes[gen.board.regions[i].hexes[k]] = gen.board.regions[i].owner

C12_Witness ==
    /\ Returned
    /\ VecLen(gen.board.regions) >= 2
    /\ \E i, j \in DOMAIN gen.board.regions :
          gen.board.regions[i].owner # gen.board.regions[j].owner

\* C14: in every returned Board each region's footprint is non-empty and
\* connected under the six-neighbour relation.
C14_RegionConnected ==
    Returned =>
        \A i \in DOMAIN gen.board.regions :
           /\ gen.board.regions[i].hexes # <<>>
           /\ Connected(Footprint(i))

C14_Witness ==
    /\ Returned
    /\ \E i \in DOMAIN gen.board.regions : Cardinality(Footprint(i)) >= 3

\* C15: in every returned Board the union of all region hexes is connected
\* under the six-neighbour relation.
C15_SingleLandmass ==
    Returned => Connected(UNION { Footprint(i) : i \in DOMAIN gen.board.regions })

C15_Witness ==
    /\ Returned
    /\ VecLen(gen.board.regions) >= 2
    /\ \E i, j \in DOMAIN gen.board.regions : i # j /\ Footprint(i) \cap Footprint(j) = {}

C23_ClashFrame ==
    [][ClashEndRuns =>
        LET clashing == { clash_end_events[k].region1.id : k \in DOMAIN clash_end_events }
                        \cup { clash_end_events[k].region2.id : k \in DOMAIN clash_end_events }
            losing == { IF clash_end_events[k].dice_1_sum > clash_end_events[k].dice_2_sum
                        THEN clash_end_events[k].region2.id
                        ELSE clash_end_events[k].region1.id : k \in DOMAIN clash_end_events }
        IN  /\ DOMAIN board'.regions = DOMAIN board.regions
            /\ DOMAIN board'.hexes = DOMAIN board.hexes
            /\ \A i \in DOMAIN board.regions :
                  /\ board.regions[i].id = i
                  /\ board'.regions[i].id = i
                  /\ board'.regions[i].hexes = board.regions[i].hexes
                  /\ i \notin clashing => board'.regions[i] = board.regions[i]
                  /\ i \notin losing => board'.regions[i].owner = board.regions[i].owner]_vars

\* A clash has been resolved on a board that has a region outside the clash.
C23_Witness ==
    /\ processed # <<>>
    /\ VecLen(board.regions) >= 3
    /\ \E i \in DOMAIN board.regions : board.regions[i].owner # i % number_of_players

\* C24: the game log is append-only: its length never decreases, the turn
\* stamp and the two region snapshots of an existing entry never change,
\* and an existing entry is written only by a roll result, which stores the
\* two sums of its face values into the most recent entry.
C24_LogAppendOnly ==
    [][/\ Len(game_log') >= Len(game_log)
       /\ \A i \in DOMAIN game_log :
             /\ game_log'[i].turn_counter = game_log[i].turn_counter
             /\ game_log'[i].turn_of_player = game_log[i].turn_of_player
             /\ game_log'[i].region_1 = game_log[i].region_1
             /\ game_log'[i].region_2 = game_log[i].region_2
             /\ game_log'[i] # game_log[i] =>
                   /\ i = Len(game_log)
                   /\ Len(game_log') = Len(game_log)
                   /\ pc = "event_dice_roll_result"
                   /\ dice_roll_started # <<>>
                   /\ \E v1 \in [1 .. Head(dice_roll_started).num_dice[1] -> Faces],
                         v2 \in [1 .. Head(dice_roll_started).num_dice[2] -> Faces] :
                         /\ game_log'[i].dice_1_sum = SumSeq(v1)
                         /\ game_log'[i].dice_2_sum = SumSeq(v2)]_vars

\* Two entries are in the log and the roll result of the second has arrived.
C24_Witness ==
    /\ Len(game_log) = 2
    /\ game_log[2].dice_1_sum > 0
    /\ game_log[2].dice_2_sum > 0

\* C28: turn_of_player and turn_counter change only in the evaluation that
\* follows a resolved clash, and never while a started clash is unresolved.
C28_TurnAfterResolution ==
    [][(turn_of_player' # turn_of_player \/ turn_counter' # turn_counter) =>
          /\ pc = "event_region_clash_end"
          /\ clash_end_events # <<>>
          /\ clash_start_events = <<>>
          /\ spawn_timers = 0
          /\ timers = 0]_vars

\* C29: handling a clash-start appends one GameLogEntry per signal, with
\* both sums 0, the current turn_counter and turn_of_player and the
\* signal's attacker and defender, and requests one roll of two sides sized
\* [attacker dice, defender dice]; board and turn fields are unchanged.
C29_ClashStartStep ==
    [][pc = "event_region_clash" =>
        /\ Len(game_log') = Len(game_log) + Len(clash_start_events)
        /\ Len(dice_roll_started') = Len(dice_roll_started) + Len(clash_start_events)
        /\ \A k \in DOMAIN clash_start_events :
              LET e == clash_start_events[k]
                  gl == game_log'[Len(game_log) + k]
                  roll == dice_roll_started'[Len(dice_roll_started) + k]
              IN  /\ gl.dice_1_sum = 0
                  /\ gl.dice_2_sum = 0
                  /\ gl.turn_counter = turn_counter
                  /\ gl.turn_of_player = turn_of_player
                  /\ gl.region_1 = e.region_1
                  /\ gl.region_2 = e.region_2
                  /\ Len(roll.num_dice) = 2
                  /\ roll.num_dice[1] = e.region_1.num_dice
                  /\ roll.num_dice[2] = e.region_2.num_dice
        /\ UNCHANGED <<board, turn_of_player, turn_counter>>]_vars

\* A clash-start has just been handled: its entry and its request are open.
C29_Witness ==
    /\ game_log # <<>>
    /\ dice_roll_started # <<>>
    /\ game_log[Len(game_log)].dice_1_sum = 0
    /\ dice_roll_started[Len(dice_roll_started)].num_dice =
         << game_log[Len(game_log)].region_1.num_dice,
            game_log[Len(game_log)].region_2.num_dice >>


\* C21: possible_moves() returns exactly the pairs (r1, r2) of board regions
\* with r1.owner = turn_of_player, a different owner for r2 and a hex of r1
\* next to a hex of r2, each such pair once.
C21_PossibleMoves ==
    LET moves == possible_moves
        Qualifies(i, j) ==
            /\ board.regions[i].owner = turn_of_player
            /\ board.regions[j].owner # board.regions[i].owner
            /\ \E a \in DOMAIN board.regions[i].hexes, b \in DOMAIN board.regions[j].hexes :
                  board.regions[j].hexes[b] \in neighbors(board.regions[i].hexes[a])
    IN  /\ \A k \in DOMAIN moves :
              LET i == moves[k][1].id
                  j == moves[k][2].id
              IN  /\ i \in DOMAIN board.regions
                  /\ j \in DOMAIN board.regions
                  /\ moves[k] = <<board.regions[i], board.regions[j]>>
                  /\ Qualifies(i, j)
        /\ \A i, j \in DOMAIN board.regions :
              Qualifies(i, j) =>
                 Cardinality({ k \in DOMAIN moves :
                                 moves[k] = <<board.regions[i], board.regions[j]>> }) = 1

\* After a capture, the player to move is not player 0 and has two moves.
C21_Witness ==
    /\ processed # <<>>
    /\ turn_of_player # 0
    /\ Len(possible_moves) >= 2
    /\ Len(possible_moves) < Len(possible_moves_AnyOwner)


\* C22: for all regions A and B, A.is_opponent(B) is true exactly when the
\* owners differ and some hex of A is a neighbour of some hex of B, and
\* A.is_opponent(B) = B.is_opponent(A).
C22_OpponentSymmetry ==
    Returned =>
        \A i, j \in DOMAIN gen.board.regions :
           LET A == gen.board.regions[i]
               B == gen.board.regions[j]
           IN  /\ is_opponent(A, B) <=>
                     /\ A.owner # B.owner
                     /\ \E a \in DOMAIN A.hexes, b \in DOMAIN B.hexes :
                           A.hexes[a] \in neighbors(B.hexes[b])
               /\ is_opponent(A, B) = is_opponent(B, A)

\* A returned board with an opponent pair that touches only through a hex
\* that is not the first of its list.
C22_Witness ==
    /\ Returned
    /\ \E i, j \in DOMAIN gen.board.regions :
          /\ is_opponent(gen.board.regions[i], gen.board.regions[j])
          /\ ~ \E n \in neighbors(gen.board.regions[i].hexes[1]) :
                  Contains(gen.board.regions[j].hexes, n)


\* C27: generate_board called with number_of_players = 0 ends in an error
\* before any patch is attempted and never returns a Board.
C27_ZeroPlayersRejected ==
    gen.players = 0 =>
        /\ gen.phase \in {"entry", "panicked"}
        /\ gen.stream = <<>>
        /\ gen.board = EmptyBoard

\* The call with no player has ended in the panic.
C27_Witness == gen.players = 0 /\ gen.phase = "panicked"

C25_MapStreamWorldSeedOnly ==
    (apps[1].world_seed = apps[2].world_seed /\ apps[1].env_seed # apps[2].env_seed) =>
        /\ \A k \in DOMAIN apps[1].draws \cap DOMAIN apps[2].draws :
              apps[1].draws[k] = apps[2].draws[k]
        /\ (apps[1].phase = "built" /\ apps[2].phase = "built"
            /\ Len(apps[1].draws) = Len(apps[2].draws)) => apps[1].map_rng = apps[2].map_rng

\* Two startups with one world_seed and two env_seeds have both drawn twice.
C25_Witness ==
    /\ apps[1].world_seed = apps[2].world_seed
    /\ apps[1].env_seed # apps[2].env_seed
    /\ Len(apps[1].draws) >= 2
    /\ Len(apps[2].draws) >= 2

\* C26: a seed of 0 never seeds a stream: when world_seed is 0, the stream
\* handed to generate_board and the map stream of PrngMapResource are keyed
\* by a substituted value (env_seed keys no stream at all).
C26_SeedSentinel ==
    \A a \in DOMAIN apps :
        /\ (apps[a].world_seed = 0 /\ apps[a].board_rng # None) => apps[a].board_rng.key # 0
        /\ (apps[a].world_seed = 0 /\ apps[a].map_rng # None) => apps[a].map_rng.key # 0

\* ----------------------------------------------- turn fields and clashes
\* C36: in every reachable state turn_of_player < number_of_players and
\* turn_of_player = turn_counter mod number_of_players; turn_counter never
\* decreases, and the two fields only ever change together in one step.
C36_TurnFieldsInStep ==
    /\ [](/\ turn_of_player < number_of_players
          /\ turn_of_player = turn_counter % number_of_players)
    /\ [][/\ turn_counter' >= turn_counter
          /\ (turn_counter' # turn_counter) <=> (turn_of_player' # turn_of_player)]_vars

\* The turn has wrapped back to player 0 after a full rotation.
C36_Witness ==
    /\ turn_counter >= number_of_players
    /\ turn_of_player = 0
    /\ turn_counter = number_of_players

C35_SnapshotConsistency ==
    LET Fresh(r) == /\ board.regions[r.id].owner = r.owner
                    /\ board.regions[r.id].num_dice = r.num_dice
    IN  /\ (timers + spawn_timers > 0 /\ game_log # <<>>) =>
              /\ Fresh(game_log[Len(game_log)].region_1)
              /\ Fresh(game_log[Len(game_log)].region_2)
        /\ \A i \in DOMAIN clash_end_events :
              Fresh(clash_end_events[i].region1) /\ Fresh(clash_end_events[i].region2)

\* C37: in every reachable state every region's dice count is at most 3,
\* and no capture raises a region's dice count above the larger of the two
\* clashing regions' counts before the clash.
C37_DiceUpperBound ==
    /\ [](\A i \in DOMAIN board.regions : board.regions[i].num_dice <= DICE_RANGE_END - 1)
    /\ [][(ClashEndRuns /\ Len(clash_end_events) = 1) =>
            LET e == clash_end_events[1]
                a == e.region1.id
                d == e.region2.id
                m == IF board.regions[a].num_dice > board.regions[d].num_dice
                     THEN board.regions[a].num_dice ELSE board.regions[d].num_dice
            IN  board'.regions[a].num_dice <= m /\ board'.regions[d].num_dice <= m]_vars

\* ------------------------------------------------ the generator's loops
\* a step of generate_board that was a rejected attempt
RetryStep == gen.phase = "patches" /\ gen'.retries > gen.retries

\* C31: a rejected patch attempt (seed already assigned, or connectivity
\* gate failed) leaves board.hexes and board.regions exactly as they were,
\* none of the attempt's hexes stays assigned, and generation stays on the
\* same (patch, player) slot.
C31_RejectedAttemptNoEffect ==
    [][RetryStep =>
        /\ gen'.board = gen.board
        /\ gen'.patch = gen.patch /\ gen'.player = gen.player
        /\ gen'.phase = "patches"]_vars

\* A run that returned a board of two regions after a rejected attempt.
C31_Witness ==
    /\ gen.phase = "returned"
    /\ gen.retries > 0
    /\ VecLen(gen.board.regions) >= 2

\* The sampling window holds a hex that is not assigned.
WindowHasFree == \E q \in SeedCoords, r \in SeedCoords : IsFree(gen.board.hexes, <<q, r>>)

\* C32: when the sampling window always contains an unassigned hex, every
\* run of generate_board with fair random choices leaves the retry loops of
\* every slot and returns a Board.
C32_GenerationTerminates ==
    (gen.phase = "patches") ~> (Returned \/ (gen.phase = "patches" /\ ~ WindowHasFree))

\* A slot is being retried with a free hex left in the window.
C32_Witness ==
    /\ gen.phase = "patches"
    /\ gen.retries > 0
    /\ WindowHasFree
    /\ gen.board.regions # <<>>

\* C33: for every number_of_players >= 1 the returned Board holds exactly
\* NUMBER_OF_PATCHES regions of each player 0 .. number_of_players - 1: no
\* (patch, player) slot is left without a region.
C33_EverySlotYieldsRegion ==
    (gen.phase = "returned" /\ gen.players >= 1) =>
        /\ VecLen(gen.board.regions) = MaxPatches * gen.players
        /\ \A p \in 0 .. gen.players - 1 :
              Cardinality({ i \in DOMAIN gen.board.regions :
                              gen.board.regions[i].owner = p }) = MaxPatches

\* ---------------------------------------------------------- hex adjacency
\* C38: neighbors(c) is exactly the 6 distinct coordinates c plus each of
\* the six axial directions, never c itself, and a is in neighbors(b)
\* exactly when b is in neighbors(a); the list the generator's loops walk
\* through is that same set, every hex of a region after its seed was added
\* as a neighbour of a hex already in the patch, and every accepted patch
\* after the first has a hex with an assigned neighbour outside it.
C38_HexAdjacency ==
    LET dirs == { <<1, 0>>, <<1, -1>>, <<0, -1>>, <<-1, 0>>, <<-1, 1>>, <<0, 1>> }
        inplay == Land \cup DOMAIN gen.board.hexes
        around == inplay \cup UNION { neighbors(c) : c \in inplay }
        regions == gen.board.regions
    IN  /\ \A c \in around :
              /\ Cardinality(neighbors(c)) = 6
              /\ neighbors(c) = { <<c[1] + d[1], c[2] + d[2]>> : d \in dirs }
              /\ c \notin neighbors(c)
              /\ Len(NeighborSeq(c)) = 6
              /\ { NeighborSeq(c)[k] : k \in 1 .. 6 } = neighbors(c)
        /\ \A a, b \in around : a \in neighbors(b) <=> b \in neighbors(a)
        /\ \A i \in DOMAIN regions :
              /\ \A k \in 2 .. Len(regions[i].hexes) :
                    \E j \in 1 .. k - 1 : regions[i].hexes[k] \in neighbors(regions[i].hexes[j])
              /\ i > 0 =>
                    \E k \in DOMAIN regions[i].hexes :
                       \E n \in neighbors(regions[i].hexes[k]) :
                          \E j \in 0 .. i - 1 : Contains(regions[j].hexes, n)

\* A returned board of two regions where a patch grew along a chain: its
\* third hex is no neighbour of its seed.
C38_Witness ==
    /\ Returned
    /\ VecLen(gen.board.regions) >= 2
    /\ \E i \in DOMAIN gen.board.regions :
          /\ Len(gen.board.regions[i].hexes) >= 3
          /\ gen.board.regions[i].hexes[3] \notin neighbors(gen.board.regions[i].hexes[1])

====
